---- MODULE Spec2Model ----
(***************************************************************************)
(* A model of SmpScheduler (src/src/smp.rs): SMP per-hart schedulers, each *)
(* behind its own mutex, with a local-first pick that steals from the      *)
(* other harts through try_lock.  Each caller is one thread of control;    *)
(* one step of the model is one lock acquisition, or one call of the       *)
(* per-hart scheduler under a guard together with the release of a guard   *)
(* that the same statement drops.                                          *)
(***************************************************************************)
EXTENDS Integers, Sequences, FiniteSets, TLC

\* ------------------------------------------------------------ bounds
\* The const generic SMP: the number of harts (2 in the tests, 4 in the example).
SMP == 3
\* The number of distinct task handles the callers create.
NTasks == 2

\* ------------------------------------------------------------ values
\* Option::None (a pick or a remove that found nothing).
None == 0
\* "no thread": the value of a free mutex, and of `stalled` when no hart has stalled.
NoThread == -1
\* The result of indexing local_queues out of range (a panic).
OutOfBounds == -1

Harts == 0..(SMP - 1)
\* An identity outside 0..SMP-1, as reported to a caller that is not one of the harts.
BadHart == SMP + 1
Threads == Harts \cup {BadHart}
Tasks == 1..NTasks
\* The priorities handed to set_priority.
Prios == {-1, 1}

VARIABLES
    queue,    \* queue[i]: the ready queue of the scheduler in local_queues[i]
    lock,     \* lock[i]: the thread holding the mutex of local_queues[i], or NoThread
    pc,       \* pc[p]: where thread p is inside its current call
    op,       \* op[p]: the operation p is inside, "none" between calls
    hid,      \* hid[p]: the value hart_id() gave p's current call
    arg,      \* arg[p]: the task argument of p's current call (moved in or referenced)
    local,    \* local[p]: `local` of pick_next_task, what the own scheduler gave
    task,     \* task[p]: `task` of pick_next_task, what a remote scheduler gave
    idx,      \* idx[p]: the loop variable i of pick_next_task's scan and of init
    ret,      \* ret[p]: the Option<SchedItem> p's last call returned
    bret,     \* bret[p]: the bool the last task_tick or set_priority returned
    hand,     \* hand[p]: the handles p was given by pick or remove and still owns
    fresh,    \* the handles not created yet
    inited,   \* whether init() has been called
    snap,     \* the queues as they were when the call(s) under way were made
    stalled   \* the hart that has stopped taking steps, or NoThread

vars == <<queue, lock, pc, op, hid, arg, local, task, idx, ret, bret,
          hand, fresh, inited, snap, stalled>>

\* ------------------------------------------------------------ the per-hart policy
\* BaseScheduler as FifoScheduler implements it: a queue served first in, first out.
FifoInit(q) == q

FifoAdd(q, t) == Append(q, t)

FifoRemove(q, t) == SelectSeq(q, LAMBDA x : x # t)

FifoRemoveResult(q, t) == IF \E k \in 1..Len(q) : q[k] = t THEN t ELSE None

\* pop_front, as the read of the front and its removal.
FifoFront(q) == IF q = <<>> THEN None ELSE Head(q)

FifoPopFront(q) == IF q = <<>> THEN q ELSE Tail(q)

FifoPutPrev(q, t, pre) == Append(q, t)

FifoTick(q, t) == FALSE

FifoSetPriority(q, t, prio) == FALSE

\* ------------------------------------------------------------ the identity capability
\* ScheduleHart::hart_id() as called by thread p.
HartId(p) == p

\* self.local_queues[hart_id]: Vec indexing, which panics out of range.
IndexWrap(id) == id % SMP

Index(id) == IF id < SMP THEN id ELSE OutOfBounds

\* The slot thread p's current call works on: its own.
Slot(p) == Index(hid[p])

\* ------------------------------------------------------------ the mutex
\* try_lock: Some(guard) exactly when nobody holds the mutex.
TryLockAlways(i) == TRUE

TryLockNever(i) == FALSE

TryLockOk(i) == lock[i] = NoThread

AcquireNothing(p, i) == lock' = lock

Acquire(p, i) == lock' = [lock EXCEPT ![i] = p]

ReleaseKept(i) == lock' = lock

\* The drop of a guard.
Release(i) == lock' = [lock EXCEPT ![i] = NoThread]

\* ------------------------------------------------------------ the scan of pick_next_task
\* The scan started at index 1 instead of 0.
NextProbeFromOne(h, i) ==
    LET from == IF i = 0 THEN 1 ELSE i
        cand == {j \in from..(SMP - 1) : j # h}
    IN  IF cand = {} THEN SMP ELSE CHOOSE j \in cand : \A k \in cand : j <= k

\* for i in 0..SMP { if i != hart_id {..} }: the first index from i on that is probed.
RECURSIVE NextProbe(_, _)
NextProbe(h, i) ==
    IF i >= SMP THEN SMP
    ELSE IF i # h THEN i ELSE NextProbe(h, i + 1)


\* ------------------------------------------------------------ construction
\* SmpScheduler::new followed by nothing: empty schedulers, free mutexes, idle callers.
Init ==
    /\ queue = [i \in Harts |-> <<>>]
    /\ lock = [i \in Harts |-> NoThread]
    /\ pc = [p \in Threads |-> "idle"]
    /\ op = [p \in Threads |-> "none"]
    /\ hid = [p \in Threads |-> HartId(p)]
    /\ arg = [p \in Threads |-> None]
    /\ local = [p \in Threads |-> None]
    /\ task = [p \in Threads |-> None]
    /\ idx = [p \in Threads |-> 0]
    /\ ret = [p \in Threads |-> None]
    /\ bret = [p \in Threads |-> FALSE]
    /\ hand = [p \in Threads |-> {}]
    /\ fresh = Tasks
    /\ inited = FALSE
    /\ snap = [i \in Harts |-> <<>>]
    /\ stalled = NoThread

\* ------------------------------------------------------------ entering a call
\* The start of every operation but init: `let hart_id = H::hart_id();` and the
\* indexing of local_queues, which panics before anything is locked.
EnterInitChecked(p, o) ==
    /\ pc[p] = "idle"
    /\ stalled # p
    /\ op' = [op EXCEPT ![p] = o]
    /\ hid' = [hid EXCEPT ![p] = HartId(p)]
    /\ ret' = [ret EXCEPT ![p] = None]
    /\ bret' = [bret EXCEPT ![p] = FALSE]
    /\ pc' = [pc EXCEPT ![p] =
                IF Index(HartId(p)) = OutOfBounds \/ ~inited THEN "panicked" ELSE "lock"]
    /\ UNCHANGED <<queue, lock, local, task, idx, inited, stalled>>

Enter(p, o) ==
    /\ pc[p] = "idle"
    /\ stalled # p
    /\ op' = [op EXCEPT ![p] = o]
    /\ hid' = [hid EXCEPT ![p] = HartId(p)]
    /\ ret' = [ret EXCEPT ![p] = None]
    /\ bret' = [bret EXCEPT ![p] = FALSE]
    /\ pc' = [pc EXCEPT ![p] =
                IF Index(HartId(p)) = OutOfBounds THEN "panicked" ELSE "lock"]
    /\ UNCHANGED <<queue, lock, local, task, idx, inited, stalled>>

\* A call that moves task t in: the handle leaves its owner unless the call panics.
MoveInCopy(p, t) ==
    /\ t \in fresh \cup hand[p]
    /\ IF Index(HartId(p)) = OutOfBounds
       THEN UNCHANGED <<arg, fresh, hand>>
       ELSE /\ arg' = [arg EXCEPT ![p] = t]
            /\ fresh' = fresh \ {t}
            /\ UNCHANGED hand

MoveIn(p, t) ==
    /\ t \in fresh \cup hand[p]
    /\ IF Index(HartId(p)) = OutOfBounds
       THEN UNCHANGED <<arg, fresh, hand>>
       ELSE /\ arg' = [arg EXCEPT ![p] = t]
            /\ fresh' = fresh \ {t}
            /\ hand' = [hand EXCEPT ![p] = @ \ {t}]

\* A call that only refers to task t, a handle that exists; keep says whether the
\* policy looks at it.
Refer(p, t, keep) ==
    /\ t \in Tasks \ fresh
    /\ arg' = [arg EXCEPT ![p] =
                 IF Index(HartId(p)) = OutOfBounds \/ ~keep THEN arg[p] ELSE t]
    /\ UNCHANGED <<fresh, hand>>

CallAdd(p, t) ==
    /\ Enter(p, "add")
    /\ MoveIn(p, t)

CallRemove(p, t) ==
    /\ Enter(p, "remove")
    /\ Refer(p, t, TRUE)

CallPick(p) ==
    /\ Enter(p, "pick")
    /\ UNCHANGED <<arg, fresh, hand>>

CallPut(p, t) ==
    /\ Enter(p, "put")
    /\ MoveIn(p, t)

CallTick(p, t) ==
    /\ Enter(p, "tick")
    /\ Refer(p, t, FALSE)

CallPrio(p, t) ==
    /\ Enter(p, "prio")
    /\ Refer(p, t, FALSE)

\* init(): no hart_id; the loop over every slot starts at 0.  It is called once.
CallInit(p) ==
    /\ pc[p] = "idle"
    /\ stalled # p
    /\ ~inited
    /\ inited' = TRUE
    /\ op' = [op EXCEPT ![p] = "init"]
    /\ idx' = [idx EXCEPT ![p] = 0]
    /\ pc' = [pc EXCEPT ![p] = "ilock"]
    /\ ret' = [ret EXCEPT ![p] = None]
    /\ bret' = [bret EXCEPT ![p] = FALSE]
    /\ UNCHANGED <<queue, lock, hid, arg, local, task, hand, fresh,
                   stalled>>

\* ------------------------------------------------------------ the own slot
\* What a step of thread p inside a call leaves alone.
Frame == UNCHANGED <<hid, fresh, inited, snap, stalled>>

\* The call of thread p is over.
Done(p) ==
    /\ pc' = [pc EXCEPT ![p] = "idle"]
    /\ op' = [op EXCEPT ![p] = "none"]
    /\ arg' = [arg EXCEPT ![p] = None]

\* self.local_queues[hart_id].lock(): blocks (spins) until the mutex is free.
LockBarging(p) ==
    /\ pc[p] = "lock"
    /\ stalled # p
    /\ Acquire(p, Slot(p))
    /\ pc' = [pc EXCEPT ![p] = "crit"]
    /\ UNCHANGED <<queue, op, arg, local, task, idx, ret, bret, hand>>
    /\ Frame

Lock(p) ==
    /\ pc[p] = "lock"
    /\ stalled # p
    /\ lock[Slot(p)] = NoThread
    /\ Acquire(p, Slot(p))
    /\ pc' = [pc EXCEPT ![p] = "crit"]
    /\ UNCHANGED <<queue, op, arg, local, task, idx, ret, bret, hand>>
    /\ Frame

\* The slot add_task inserts into: the caller's own.
AddSlotShortest(p) ==
    CHOOSE i \in Harts : \A j \in Harts :
        Len(queue[i]) < Len(queue[j]) \/ (Len(queue[i]) = Len(queue[j]) /\ i <= j)

AddSlotZero(p) == 0

AddSlot(p) == Slot(p)

\* Line 40: .add_task(task) under the guard, which the statement then drops.
DoAdd(p) ==
    /\ pc[p] = "crit" /\ op[p] = "add"
    /\ stalled # p
    /\ queue' = [queue EXCEPT ![AddSlot(p)] = FifoAdd(@, arg[p])]
    /\ Release(Slot(p))
    /\ Done(p)
    /\ UNCHANGED <<local, task, idx, ret, bret, hand>>
    /\ Frame

\* The slots remove_task searches: the caller's own.
RemoveSlotsAll(p) == Harts

RemoveSlots(p) == {Slot(p)}

\* Line 45: .remove_task(task) under the guard; the handle found goes to the caller.
DoRemove(p) ==
    /\ pc[p] = "crit" /\ op[p] = "remove"
    /\ stalled # p
    /\ LET found == {i \in RemoveSlots(p) : FifoRemoveResult(queue[i], arg[p]) # None}
           r == IF found = {} THEN None ELSE arg[p]
       IN  /\ queue' = [i \in Harts |->
                          IF i \in found THEN FifoRemove(queue[i], arg[p]) ELSE queue[i]]
           /\ ret' = [ret EXCEPT ![p] = r]
           /\ hand' = [hand EXCEPT ![p] = IF r = None THEN @ ELSE @ \cup {r}]
    /\ Release(Slot(p))
    /\ Done(p)
    /\ UNCHANGED <<local, task, idx, bret>>
    /\ Frame

\* Line 72-74: .put_prev_task(prev, preempt) under the guard; preempt is an input
\* that the policy decides on.
DoPutToOrigin(p) ==
    /\ pc[p] = "crit" /\ op[p] = "put"
    /\ stalled # p
    /\ LET born == {i \in Harts : \E k \in 1..Len(snap[i]) : snap[i][k] = arg[p]}
           to == IF born = {} THEN Slot(p) ELSE CHOOSE i \in born : TRUE
       IN  \E pre \in BOOLEAN :
              queue' = [queue EXCEPT ![to] = FifoPutPrev(@, arg[p], pre)]
    /\ Release(Slot(p))
    /\ Done(p)
    /\ UNCHANGED <<local, task, idx, ret, bret, hand>>
    /\ Frame

DoPut(p) ==
    /\ pc[p] = "crit" /\ op[p] = "put"
    /\ stalled # p
    /\ \E pre \in BOOLEAN :
          queue' = [queue EXCEPT ![Slot(p)] = FifoPutPrev(@, arg[p], pre)]
    /\ Release(Slot(p))
    /\ Done(p)
    /\ UNCHANGED <<local, task, idx, ret, bret, hand>>
    /\ Frame

\* Line 79: .task_tick(current) under the guard.
DoTick(p) ==
    /\ pc[p] = "crit" /\ op[p] = "tick"
    /\ stalled # p
    /\ bret' = [bret EXCEPT ![p] = FifoTick(queue[Slot(p)], arg[p])]
    /\ Release(Slot(p))
    /\ Done(p)
    /\ UNCHANGED <<queue, local, task, idx, ret, hand>>
    /\ Frame

\* Line 84: .set_priority(task, prio) under the guard; prio is an input that the
\* policy decides on.
DoPrio(p) ==
    /\ pc[p] = "crit" /\ op[p] = "prio"
    /\ stalled # p
    /\ \E prio \in Prios :
          bret' = [bret EXCEPT ![p] = FifoSetPriority(queue[Slot(p)], arg[p], prio)]
    /\ Release(Slot(p))
    /\ Done(p)
    /\ UNCHANGED <<queue, local, task, idx, ret, hand>>
    /\ Frame

\* ------------------------------------------------------------ pick_next_task
\* A pick_next_task call returns r to its caller p.
Return(p, r) ==
    /\ ret' = [ret EXCEPT ![p] = r]
    /\ hand' = [hand EXCEPT ![p] = IF r = None THEN @ ELSE @ \cup {r}]
    /\ local' = [local EXCEPT ![p] = None]
    /\ task' = [task EXCEPT ![p] = None]
    /\ idx' = [idx EXCEPT ![p] = 0]
    /\ Done(p)

\* The scan goes on at the first index from i on that is probed, or ends with None
\* (line 67) when there is none left.
AdvanceNoSkip(p, i) ==
    IF i >= SMP
    THEN Return(p, None)
    ELSE /\ idx' = [idx EXCEPT ![p] = i]
         /\ pc' = [pc EXCEPT ![p] = "probe"]
         /\ task' = [task EXCEPT ![p] = None]
         /\ UNCHANGED <<op, arg, local, ret, hand>>

Advance(p, i) ==
    IF NextProbe(hid[p], i) >= SMP
    THEN Return(p, None)
    ELSE /\ idx' = [idx EXCEPT ![p] = NextProbe(hid[p], i)]
         /\ pc' = [pc EXCEPT ![p] = "probe"]
         /\ task' = [task EXCEPT ![p] = None]
         /\ UNCHANGED <<op, arg, local, ret, hand>>

\* Line 50, under the own guard: the scheduler's pick reads the front of its queue.
PickRead(p) ==
    /\ pc[p] = "crit" /\ op[p] = "pick"
    /\ stalled # p
    /\ local' = [local EXCEPT ![p] = FifoFront(queue[Slot(p)])]
    /\ pc' = [pc EXCEPT ![p] = "pop"]
    /\ UNCHANGED <<queue, lock, op, arg, task, idx, ret, bret, hand>>
    /\ Frame

\* Line 51-55: `local` is returned if it is Some; if not, the scan starts at 0.
AfterLocalScan(p) == Advance(p, 0)

AfterLocal(p) ==
    IF local[p] # None
    THEN Return(p, local[p])
    ELSE Advance(p, 0)

\* The own guard kept alive across the scan and never dropped.
PickPopHolding(p) ==
    /\ pc[p] = "pop"
    /\ stalled # p
    /\ queue' = [queue EXCEPT ![Slot(p)] = FifoPopFront(@)]
    /\ UNCHANGED lock
    /\ AfterLocal(p)
    /\ UNCHANGED bret
    /\ Frame

\* Line 50-53: the front is removed and the own guard dropped; then AfterLocal.
PickPop(p) ==
    /\ pc[p] = "pop"
    /\ stalled # p
    /\ queue' = [queue EXCEPT ![Slot(p)] = FifoPopFront(@)]
    /\ Release(Slot(p))
    /\ AfterLocal(p)
    /\ UNCHANGED bret
    /\ Frame

\* Line 57-58: try_lock on local_queues[i]; a held mutex is skipped at once.
ProbeBlocking(p) ==
    /\ pc[p] = "probe"
    /\ stalled # p
    /\ lock[idx[p]] = NoThread
    /\ Acquire(p, idx[p])
    /\ pc' = [pc EXCEPT ![p] = "steal"]
    /\ UNCHANGED <<queue, op, arg, local, task, idx, ret, bret, hand>>
    /\ Frame

ProbePanics(p) ==
    /\ pc[p] = "probe"
    /\ stalled # p
    /\ IF TryLockOk(idx[p])
       THEN /\ Acquire(p, idx[p])
            /\ pc' = [pc EXCEPT ![p] = "steal"]
       ELSE /\ pc' = [pc EXCEPT ![p] = "panicked"]
            /\ UNCHANGED lock
    /\ UNCHANGED <<queue, op, arg, local, task, idx, ret, bret, hand>>
    /\ Frame

Probe(p) ==
    /\ pc[p] = "probe"
    /\ stalled # p
    /\ IF TryLockOk(idx[p])
       THEN /\ Acquire(p, idx[p])
            /\ pc' = [pc EXCEPT ![p] = "steal"]
            /\ UNCHANGED <<op, arg, local, task, idx, ret, hand>>
       ELSE /\ Advance(p, idx[p] + 1)
            /\ UNCHANGED lock
    /\ UNCHANGED <<queue, bret>>
    /\ Frame

\* Line 60, under the remote guard: the remote scheduler's pick reads its front.
StealRead(p) ==
    /\ pc[p] = "steal"
    /\ stalled # p
    /\ task' = [task EXCEPT ![p] = FifoFront(queue[idx[p]])]
    /\ pc' = [pc EXCEPT ![p] = "spop"]
    /\ UNCHANGED <<queue, lock, op, arg, local, idx, ret, bret, hand>>
    /\ Frame

\* Line 60-64: the front is removed; `task` is returned if it is Some (the guard
\* `other` dropped on the way out), and if not the guard is dropped and the scan
\* goes on.
StealPop(p) ==
    /\ pc[p] = "spop"
    /\ stalled # p
    /\ queue' = [queue EXCEPT ![idx[p]] = FifoPopFront(@)]
    /\ Release(idx[p])
    /\ IF task[p] # None
       THEN Return(p, task[p])
       ELSE Advance(p, idx[p] + 1)
    /\ UNCHANGED bret
    /\ Frame

\* ------------------------------------------------------------ init
\* Line 34: self.local_queues[i].lock(), blocking.
InitLock(p) ==
    /\ pc[p] = "ilock"
    /\ stalled # p
    /\ lock[idx[p]] = NoThread
    /\ Acquire(p, idx[p])
    /\ pc' = [pc EXCEPT ![p] = "icrit"]
    /\ UNCHANGED <<queue, op, arg, local, task, idx, ret, bret, hand>>
    /\ Frame

\* Line 33-35: .init() under the guard, the guard dropped, the next i.
InitDo(p) ==
    /\ pc[p] = "icrit"
    /\ stalled # p
    /\ queue' = [queue EXCEPT ![idx[p]] = FifoInit(@)]
    /\ Release(idx[p])
    /\ IF idx[p] + 1 < SMP
       THEN /\ idx' = [idx EXCEPT ![p] = idx[p] + 1]
            /\ pc' = [pc EXCEPT ![p] = "ilock"]
            /\ UNCHANGED <<op, arg>>
       ELSE /\ idx' = [idx EXCEPT ![p] = 0]
            /\ Done(p)
    /\ UNCHANGED <<local, task, ret, bret, hand>>
    /\ Frame

\* ------------------------------------------------------------ the callers
\* A call by thread p of an operation that takes the caller's identity.
CallOp(p) ==
    \/ CallPick(p)
    \/ \E t \in Tasks :
          \/ CallAdd(p, t)
          \/ CallRemove(p, t)
          \/ CallTick(p, t)
          \/ CallPrio(p, t)
          \/ CallPut(p, t)

\* A step of thread p inside a call that locks its own slot.
Step(p) ==
    \/ Lock(p)
    \/ DoAdd(p)
    \/ DoRemove(p)
    \/ DoPut(p)
    \/ DoTick(p)
    \/ DoPrio(p)
    \/ PickRead(p)
    \/ PickPop(p)
    \/ Probe(p)
    \/ StealRead(p)
    \/ StealPop(p)

\* A step of thread p inside init.
InitStep(p) ==
    \/ InitLock(p)
    \/ InitDo(p)

\* The harts run concurrently once init() has returned.
Ready ==
    /\ queue = [i \in Harts |-> <<>>]
    /\ lock = [i \in Harts |-> NoThread]
    /\ pc = [p \in Threads |-> "idle"]
    /\ op = [p \in Threads |-> "none"]
    /\ hid = [p \in Threads |-> HartId(p)]
    /\ arg = [p \in Threads |-> None]
    /\ local = [p \in Threads |-> None]
    /\ task = [p \in Threads |-> None]
    /\ idx = [p \in Threads |-> 0]
    /\ ret = [p \in Threads |-> None]
    /\ bret = [p \in Threads |-> FALSE]
    /\ hand = [p \in Threads |-> {}]
    /\ fresh = Tasks
    /\ inited = TRUE
    /\ snap = [i \in Harts |-> <<>>]
    /\ stalled = NoThread

Next ==
    \E p \in Harts :
        \/ CallOp(p) /\ UNCHANGED snap
        \/ Step(p)

Spec == Ready /\ [][Next]_vars

\* ------------------------------------------------------------ serialised callers
\* No call is under way: every thread is between calls, or dead of a panic.
Quiet == \A q \in Threads : pc[q] \in {"idle", "panicked"}

\* The callers take turns, as the one test thread of lib.rs does when it plays every
\* hart by storing to TMP; the next call starts when the last one is over.  Calls
\* may come before init(), and from a caller whose identity is out of range.
SeqNext ==
    \E p \in Threads :
        \/ Quiet /\ (CallOp(p) \/ CallInit(p)) /\ snap' = queue
        \/ Step(p)
        \/ InitStep(p) /\ UNCHANGED snap

SpecSeq == Init /\ [][SeqNext]_vars

\* ------------------------------------------------------------ every hart picks at once
\* The set of the elements of a sequence.
Elems(q) == {q[k] : k \in 1..Len(q)}

\* The subsequence of q with the tasks that place puts on hart i.
PlaceOn(q, place, i) == SelectSeq(q, LAMBDA t : place[t] = i)

\* The orders of the tasks: the sequences that hold each task once.
Orders == {q \in [1..NTasks -> Tasks] : \A t \in Tasks : \E k \in 1..NTasks : q[k] = t}

\* K tasks sit in the queues, distributed in any way (place[t] = SMP: t is not
\* there), and every hart has just called pick_next_task.
PickAllInit ==
    /\ \E order \in Orders, place \in [Tasks -> 0..SMP] :
          /\ queue = [i \in Harts |-> PlaceOn(order, place, i)]
          /\ fresh = {t \in Tasks : place[t] = SMP}
    /\ snap = queue
    /\ lock = [i \in Harts |-> NoThread]
    /\ pc = [p \in Threads |-> IF p \in Harts THEN "lock" ELSE "idle"]
    /\ op = [p \in Threads |-> IF p \in Harts THEN "pick" ELSE "none"]
    /\ hid = [p \in Threads |-> HartId(p)]
    /\ arg = [p \in Threads |-> None]
    /\ local = [p \in Threads |-> None]
    /\ task = [p \in Threads |-> None]
    /\ idx = [p \in Threads |-> 0]
    /\ ret = [p \in Threads |-> None]
    /\ bret = [p \in Threads |-> FALSE]
    /\ hand = [p \in Threads |-> {}]
    /\ inited = TRUE
    /\ stalled = NoThread

PickAllNext ==
    \E p \in Harts :
        \/ Lock(p)
        \/ PickRead(p)
        \/ PickPop(p)
        \/ Probe(p)
        \/ StealRead(p)
        \/ StealPop(p)

SpecPickAll == PickAllInit /\ [][PickAllNext]_vars

\* ------------------------------------------------------------ a hart that stalls
\* Hart p stops taking steps for good, wherever it is: between calls, waiting for a
\* mutex, or holding one.  At most one hart does.
Stall(p) ==
    /\ stalled = NoThread
    /\ stalled' = p
    /\ UNCHANGED <<queue, lock, pc, op, hid, arg, local, task, idx, ret, bret,
                   hand, fresh, inited, snap>>

\* The harts pick tasks and put them back, over and over.
StallCall(p) ==
    /\ \/ CallPick(p)
       \/ \E t \in Tasks : CallPut(p, t)
    /\ UNCHANGED snap

\* A step of hart p inside a pick_next_task or a put_prev_task call.
StallStep(p) ==
    \/ Lock(p)
    \/ DoPut(p)
    \/ PickRead(p)
    \/ PickPop(p)
    \/ Probe(p)
    \/ StealRead(p)
    \/ StealPop(p)

StallNext ==
    \E p \in Harts :
        \/ StallCall(p)
        \/ StallStep(p)
        \/ Stall(p)

\* Tasks sit in the queues in any distribution; the harts are between calls.
StallInit ==
    /\ \E order \in Orders, place \in [Tasks -> Harts] :
          queue = [i \in Harts |-> PlaceOn(order, place, i)]
    /\ fresh = {}
    /\ snap = [i \in Harts |-> <<>>]
    /\ lock = [i \in Harts |-> NoThread]
    /\ pc = [p \in Threads |-> "idle"]
    /\ op = [p \in Threads |-> "none"]
    /\ hid = [p \in Threads |-> HartId(p)]
    /\ arg = [p \in Threads |-> None]
    /\ local = [p \in Threads |-> None]
    /\ task = [p \in Threads |-> None]
    /\ idx = [p \in Threads |-> 0]
    /\ ret = [p \in Threads |-> None]
    /\ bret = [p \in Threads |-> FALSE]
    /\ hand = [p \in Threads |-> {}]
    /\ inited = TRUE
    /\ stalled = NoThread

\* A hart that has not stalled keeps taking the steps of its call, and its lock()
\* is granted if the mutex is free again and again.  Nothing makes a hart call.
SpecStall ==
    /\ StallInit
    /\ [][StallNext]_vars
    /\ \A p \in Harts : SF_vars(StallStep(p))

\* ------------------------------------------------------------ tasks that migrate
\* Every task sits in the queue of the hart that added it, which snap records for
\* good; from then on the harts pick tasks, locally or by a steal, and put them back.
MigrateInit ==
    /\ \E order \in Orders, place \in [Tasks -> Harts] :
          queue = [i \in Harts |-> PlaceOn(order, place, i)]
    /\ snap = queue
    /\ fresh = {}
    /\ lock = [i \in Harts |-> NoThread]
    /\ pc = [p \in Threads |-> "idle"]
    /\ op = [p \in Threads |-> "none"]
    /\ hid = [p \in Threads |-> HartId(p)]
    /\ arg = [p \in Threads |-> None]
    /\ local = [p \in Threads |-> None]
    /\ task = [p \in Threads |-> None]
    /\ idx = [p \in Threads |-> 0]
    /\ ret = [p \in Threads |-> None]
    /\ bret = [p \in Threads |-> FALSE]
    /\ hand = [p \in Threads |-> {}]
    /\ inited = TRUE
    /\ stalled = NoThread

MigrateNext ==
    \E p \in Harts :
        \/ StallCall(p)
        \/ StallStep(p)

SpecMigrate == MigrateInit /\ [][MigrateNext]_vars

\* ------------------------------------------------------------ the drain of the example
\* What hart_id() gives the threads of the example after the barrier.  It loads the
\* shared TMP, which every thread stored its own index to before its adds: meant is
\* that each thread sees its own index; after the barrier TMP is the index stored
\* last, the same for every thread.
DrainIds == {[p \in Threads |-> HartId(p)]} \cup {[p \in Threads |-> x] : x \in Harts}

\* Past the barrier: every task was added and sits in some queue, and every thread
\* has made its first pick_next_task call.
DrainInit ==
    /\ \E order \in Orders, place \in [Tasks -> Harts] :
          queue = [i \in Harts |-> PlaceOn(order, place, i)]
    /\ snap = queue
    /\ fresh = {}
    /\ hid \in DrainIds
    /\ lock = [i \in Harts |-> NoThread]
    /\ pc = [p \in Threads |-> IF p \in Harts THEN "lock" ELSE "idle"]
    /\ op = [p \in Threads |-> IF p \in Harts THEN "pick" ELSE "none"]
    /\ arg = [p \in Threads |-> None]
    /\ local = [p \in Threads |-> None]
    /\ task = [p \in Threads |-> None]
    /\ idx = [p \in Threads |-> 0]
    /\ ret = [p \in Threads |-> None]
    /\ bret = [p \in Threads |-> FALSE]
    /\ hand = [p \in Threads |-> {}]
    /\ inited = TRUE
    /\ stalled = NoThread

\* The thread gives up after its first task instead of looping.
DrainStop(p) ==
    /\ pc[p] = "idle"
    /\ ret[p] # None
    /\ ret' = [ret EXCEPT ![p] = None]
    /\ UNCHANGED <<queue, lock, pc, op, hid, arg, local, task, idx, bret, hand,
                   fresh, inited, snap, stalled>>

\* The loop of the example: a thread that was returned a task runs it and calls
\* pick_next_task again; one that was returned None breaks out and stops.
DrainAgain(p) ==
    /\ pc[p] = "idle"
    /\ ret[p] # None
    /\ op' = [op EXCEPT ![p] = "pick"]
    /\ pc' = [pc EXCEPT ![p] = "lock"]
    /\ ret' = [ret EXCEPT ![p] = None]
    /\ UNCHANGED <<queue, lock, hid, arg, local, task, idx, bret, hand,
                   fresh, inited, snap, stalled>>

DrainNext ==
    \E p \in Harts :
        \/ DrainAgain(p)
        \/ Lock(p)
        \/ PickRead(p)
        \/ PickPop(p)
        \/ Probe(p)
        \/ StealRead(p)
        \/ StealPop(p)

SpecDrain == DrainInit /\ [][DrainNext]_vars

\* ------------------------------------------------------------ init, then the harts
\* No init() is under way.
InitOver == inited /\ \A q \in Threads : pc[q] \notin {"ilock", "icrit"}

\* main of the example: new(), then init() by one thread, and only when it has
\* returned do the harts make their calls, concurrently.
BootNext ==
    \E p \in Harts :
        \/ CallInit(p) /\ UNCHANGED snap
        \/ InitStep(p) /\ UNCHANGED snap
        \/ InitOver /\ CallOp(p) /\ UNCHANGED snap
        \/ Step(p)

SpecBoot == Init /\ [][BootNext]_vars

\* ------------------------------------------------------------ harts that keep going
\* Every hart keeps taking the steps of the call it is in, and its lock() is granted
\* if the mutex is free again and again.  Nothing makes a hart call.
SpecLive ==
    /\ Ready
    /\ [][Next]_vars
    /\ \A p \in Harts : SF_vars(Step(p))

\* ============================================================ the claims
\* The operations that take the caller's identity.
HartOps == {"add", "remove", "pick", "put", "tick", "prio"}

\* The operations that never leave the caller's slot.
LocalOps == {"add", "remove", "put", "tick", "prio"}

\* This step is thread p entering a call of one of the operations in ops.
Calls(p, ops) == pc[p] = "idle" /\ pc'[p] # "idle" /\ op'[p] \in ops

\* This step is thread p's pick_next_task call returning.
PickReturns(p) == op[p] = "pick" /\ pc[p] \notin {"idle", "panicked"} /\ pc'[p] = "idle"

\* This step is thread p's remove_task call asking its scheduler and returning.
RemoveReturns(p) == op[p] = "remove" /\ pc[p] = "crit" /\ pc'[p] = "idle"

\* ------------------------------------------------------------ C1
\* C1 (single ownership): whenever a pick_next_task call returns a task, by a local
\* pick or a steal, no thread owns that handle at that moment: every thread that was
\* given it before (by a pick or a remove) has given it back through put_prev_task
\* or add_task.  Under Spec: every interleaving of add, remove, pick, put-prev, tick
\* and set-priority calls of the SMP harts.
C1_SingleOwnership ==
    [][\A p \in Harts :
          (PickReturns(p) /\ ret'[p] # None)
              => \A q \in Threads : ret'[p] \notin hand[q]]_vars

\* Two harts own different tasks at once, one of them by a steal (its own queue
\* never held it: it has only picked), while a third call is probing.
C1_Witness ==
    \E p, q \in Harts :
        /\ p # q
        /\ hand[p] # {} /\ hand[q] # {}
        /\ hand[p] \cap hand[q] = {}
        /\ ret[p] \in hand[p] /\ ret[q] \in hand[q]
        /\ \E r \in Harts \ {p, q} : pc[r] = "spop"

\* ------------------------------------------------------------ C2
\* C2 as claimed (local-first locality, every hart picking at once): a hart whose
\* own queue was non-empty when it called pick_next_task is never returned a task
\* of a remote queue.  In SpecPickAll the calls are made in the initial state, so
\* snap holds the queues as they were at the call, and no task changes queue.
C2_LocalAtCallNeverRemote ==
    \A p \in Harts :
        (pc[p] = "idle" /\ snap[hid[p]] # <<>> /\ ret[p] # None)
            => ret[p] \in Elems(snap[hid[p]])

\* C2 as amended: what counts is the moment hart h holds its own guard.  If its own
\* queue is non-empty when its scheduler is asked under that guard, `local` is the
\* front of that queue, and the call returns `local` on dropping the guard, without
\* probing any remote slot.
C2_LocalUnderGuardNeverRemote ==
    [][\A p \in Harts :
          /\ (pc[p] = "crit" /\ op[p] = "pick" /\ pc'[p] = "pop"
                  /\ queue[hid[p]] # <<>>)
                => (local'[p] = Head(queue[hid[p]]) /\ lock[hid[p]] = p)
          /\ (pc[p] = "pop" /\ local[p] # None /\ pc'[p] # "pop")
                => (pc'[p] = "idle" /\ ret'[p] = local[p])]_vars

\* A hart has returned the front of its own queue, and another hart, whose own
\* queue was empty, has returned a stolen task.
C2_Witness ==
    \E p, q \in Harts :
        /\ p # q
        /\ pc[p] = "idle" /\ snap[hid[p]] # <<>> /\ ret[p] = Head(snap[hid[p]])
        /\ pc[q] = "idle" /\ snap[hid[q]] = <<>> /\ ret[q] # None

\* ------------------------------------------------------------ C3
\* The least element of a non-empty set of integers.
Least(S) == CHOOSE x \in S : \A y \in S : x <= y

\* The harts other than h whose queue in q is non-empty.
Busy(q, h) == {i \in Harts \ {h} : q[i] # <<>>}

\* C3 (stealing completeness without contention): under serialised callers (no
\* slot is locked by anyone else while the call runs), a pick_next_task call by
\* hart h made when h's queue is empty and exactly one other hart h' has a
\* non-empty queue returns the front task of h' and removes it from the queue of h'.
C3_StealCompleteness ==
    [][\A p \in Harts :
          (PickReturns(p) /\ snap[hid[p]] = <<>>
                /\ Cardinality(Busy(snap, hid[p])) = 1)
            => LET i == Least(Busy(snap, hid[p]))
               IN  /\ ret'[p] = Head(snap[i])
                   /\ queue'[i] = Tail(snap[i])
                   /\ \A j \in Harts \ {i} : queue'[j] = snap[j]]_vars

\* Hart 0 has stolen the one task there was, from the last hart, after probing the
\* empty slot between them.
C3_Witness ==
    /\ Quiet
    /\ snap[0] = <<>> /\ snap[SMP - 1] # <<>>
    /\ \A i \in Harts \ {SMP - 1} : snap[i] = <<>>
    /\ ret[0] = Head(snap[SMP - 1])
    /\ queue[SMP - 1] = Tail(snap[SMP - 1])
    /\ ret[0] \in hand[0]

\* ------------------------------------------------------------ C6
\* What a pick by hart h returns from queues q when nothing is locked: the front of
\* its own queue, else the front of the lowest-indexed non-empty other queue, else
\* None.
SeqPick(q, h) ==
    IF q[h] # <<>> THEN Head(q[h])
    ELSE IF Busy(q, h) # {} THEN Head(q[Least(Busy(q, h))])
    ELSE None

\* C6 (sequential pick result, FIFO policy): under serialised callers, every
\* pick_next_task call by hart h returns SeqPick of the queues as they were at the
\* call.  The scenario of the tests is the instance: A in queue 0, B in queue 1,
\* hart 0 picks A, then B, then None.
C6_SequentialPick ==
    [][\A p \in Harts :
          PickReturns(p) => ret'[p] = SeqPick(snap, hid[p])]_vars

\* Hart 0 was returned the front of queue 1 when its own queue was empty and both
\* other queues were not.
C6_Witness ==
    /\ Quiet
    /\ SMP >= 3
    /\ snap[0] = <<>> /\ snap[1] # <<>> /\ snap[2] # <<>>
    /\ ret[0] = Head(snap[1])
    /\ ret[0] \in hand[0]
    /\ queue[2] = snap[2]

\* ------------------------------------------------------------ C4
\* Every hart's one pick_next_task call has returned.
AllDone == \A p \in Harts : pc[p] = "idle"

\* The tasks that sat in the queues when the calls were made, and their number K.
Queued == UNION {Elems(snap[i]) : i \in Harts}

\* The harts whose call returned r.
Got(r) == {p \in Harts : ret[p] = r}

\* C4 as claimed (no double-delivery): when all SMP harts have made their one call
\* with K tasks in the queues, each of the K tasks was returned to exactly one
\* caller, and if K < SMP exactly SMP - K calls returned None.
C4_EachTaskExactlyOnce ==
    AllDone =>
        /\ \A t \in Queued : Cardinality(Got(t)) = 1
        /\ Cardinality(Queued) < SMP
              => Cardinality(Got(None)) = SMP - Cardinality(Queued)

\* C4 as amended: no task is returned twice and none is lost, but a task may be
\* returned to nobody.  Each of the K tasks was returned to at most one caller; a
\* task not returned still sits in the queue it was in and those tasks are a tail
\* of that queue, in order; a call returned a task or None, so at least SMP - K
\* calls returned None.
C4_AtMostOnceNoneLost ==
    AllDone =>
        /\ \A t \in Queued : Cardinality(Got(t)) <= 1
        /\ \A p \in Harts : ret[p] \in Queued \cup {None}
        /\ \A i \in Harts :
              /\ \E k \in 0..Len(snap[i]) : queue[i] = SubSeq(snap[i], k + 1, Len(snap[i]))
              /\ \A t \in Elems(snap[i]) : (Got(t) = {}) <=> (t \in Elems(queue[i]))
        /\ Cardinality(Got(None)) >= SMP - Cardinality(Queued)

\* All calls have returned, one with a task and the others with None, and a task is
\* still in its queue: a hart found that slot locked and did not wait.
C4_Witness ==
    /\ AllDone
    /\ Cardinality(Queued) = 2
    /\ \E i \in Harts : Len(snap[i]) = 2 /\ Len(queue[i]) = 1
    /\ Cardinality(Got(None)) = SMP - 1

\* ------------------------------------------------------------ C5
\* C5 (scope of the non-stealing operations): every step of an add_task,
\* remove_task, put_prev_task, task_tick or set_priority call of hart h, from the
\* call to the return, leaves the mutex and the queue of every slot other than h as
\* they were; the only mutex it takes or drops is that of slot h.
C5_LocalOpsStayLocal ==
    [][\A p \in Harts :
          (pc'[p] # pc[p] /\ (op[p] \in LocalOps \/ op'[p] \in LocalOps))
            => \A i \in Harts \ {HartId(p)} :
                  lock'[i] = lock[i] /\ queue'[i] = queue[i]]_vars

\* Hart h is adding a task under its own guard while its queue holds one already and
\* every other queue is empty and unlocked.
C5_Witness ==
    \E p \in Harts :
        /\ pc[p] = "crit" /\ op[p] = "add"
        /\ queue[p] # <<>>
        /\ \A i \in Harts \ {p} : queue[i] = <<>> /\ lock[i] = NoThread

\* ------------------------------------------------------------ C7
\* C7 (an out-of-range identity fails fast): a call of add_task, remove_task,
\* pick_next_task, put_prev_task, task_tick or set_priority by a caller whose
\* hart_id() is SMP or more ends in the panic of the indexing: the index is not
\* wrapped into range, no mutex is taken and no queue, and no handle's owner,
\* changes.
C7_OutOfRangeFailsFast ==
    [][\A p \in Threads :
          (Calls(p, HartOps) /\ HartId(p) >= SMP)
            => /\ pc'[p] = "panicked"
               /\ lock' = lock /\ queue' = queue
               /\ hand' = hand /\ fresh' = fresh]_vars

\* The caller with the bad identity has panicked in pick_next_task while tasks sat
\* in the queues and every mutex was free.
C7_Witness ==
    /\ pc[BadHart] = "panicked" /\ op[BadHart] = "pick"
    /\ \E i \in Harts : queue[i] # <<>>
    /\ \A i \in Harts : lock[i] = NoThread

\* ------------------------------------------------------------ C8
\* C8 as claimed (use before init fails fast): a call of one of the six operations
\* made before init() has been called ends in a fatal error.
C8_UseBeforeInitIsFatal ==
    [][\A p \in Threads :
          (Calls(p, HartOps) /\ ~inited) => pc'[p] = "panicked"]_vars

\* C8 as amended: the Dispatcher keeps no record of init() and does not detect a
\* call made before it.  Such a call by a caller with an identity in range goes on
\* to lock the caller's slot exactly as a call made after init() does; only the
\* out-of-range identity is fatal.
C8_UseBeforeInitProceeds ==
    [][\A p \in Threads :
          Calls(p, HartOps)
            => /\ HartId(p) < SMP => pc'[p] = "lock"
               /\ HartId(p) >= SMP => pc'[p] = "panicked"
               /\ inited' = inited]_vars

\* init() was never called, and yet a task sits in a queue and a hart owns a task
\* that a call returned to it.
C8_Witness ==
    /\ ~inited
    /\ \E p \in Harts : ret[p] # None /\ ret[p] \in hand[p] /\ pc[p] = "idle"
    /\ \E i \in Harts : queue[i] # <<>>

\* ------------------------------------------------------------ C9
\* C9 (no cross-hart removal): when remove_task(t) of hart h asks its scheduler, it
\* returns t exactly if t is in h's own queue at that moment, and then t leaves that
\* queue for the caller; if t is in another hart's queue or owned by a thread, the
\* call returns None and every queue and every owner stays as it was.
C9_RemoveOnlyLocal ==
    [][\A p \in Harts :
          RemoveReturns(p)
            => IF arg[p] \in Elems(queue[hid[p]])
               THEN /\ ret'[p] = arg[p]
                    /\ arg[p] \in hand'[p]
                    /\ queue' = [queue EXCEPT ![hid[p]] = FifoRemove(@, arg[p])]
               ELSE /\ ret'[p] = None
                    /\ queue' = queue
                    /\ hand' = hand]_vars

\* Hart h holds its guard inside remove_task(t) while t sits in another hart's
\* queue and h's own queue holds another task.
C9_Witness ==
    \E p \in Harts, i \in Harts :
        /\ i # p
        /\ pc[p] = "crit" /\ op[p] = "remove"
        /\ arg[p] \in Elems(queue[i])
        /\ queue[hid[p]] # <<>>

\* ------------------------------------------------------------ C10
\* Hart p is inside a pick_next_task call and has not stalled.
Picking(p) == op[p] = "pick" /\ stalled # p

OwnSlotHeldByStalled(p) ==
    /\ stalled # NoThread
    /\ pc[p] = "lock"
    /\ lock[hid[p]] = stalled

AddReturns(p) == op[p] = "add" /\ pc[p] = "crit" /\ pc'[p] = "idle"

\* C11 (a task is born on its creator's hart): when add_task(t) of hart h inserts
\* and returns, t is the new last element of the queue of slot h, every other queue
\* is as it was and does not hold t, whatever the lengths of the queues are.
C11_BornOnCreatorsHart ==
    [][\A p \in Harts :
          AddReturns(p)
            => /\ queue'[hid[p]] = Append(queue[hid[p]], arg[p])
               /\ \A i \in Harts \ {hid[p]} :
                     queue'[i] = queue[i] /\ arg[p] \notin Elems(queue'[i])]_vars

\* Every task was created and sits in the queue of the last hart, the longest there
\* can be, while every other queue is empty and nobody is inside a call.
C11_Witness ==
    /\ fresh = {}
    /\ Len(queue[SMP - 1]) = NTasks
    /\ \A i \in Harts \ {SMP - 1} : queue[i] = <<>>
    /\ \A p \in Harts : pc[p] = "idle" /\ hand[p] = {}

\* ------------------------------------------------------------ C12
\* The positions of the queues that hold task t.
InQueues(t) == {ik \in Harts \X (1..NTasks) : ik[2] <= Len(queue[ik[1]]) /\ queue[ik[1]][ik[2]] = t}

\* The threads that own task t: a pick or a remove returned it to them.
Holders(t) == {p \in Threads : t \in hand[p]}

\* The threads whose add_task or put_prev_task call has t moved in and not inserted.
Carriers(t) == {p \in Threads : op[p] \in {"add", "put"} /\ pc[p] \in {"lock", "crit"} /\ arg[p] = t}

\* The number of places task t is in.
Places(t) == Cardinality(InQueues(t)) + Cardinality(Holders(t)) + Cardinality(Carriers(t))

\* C12 (task location, conservation): every task that was created is in exactly one
\* place: one position of one queue, the hands of one hart, or in transit inside
\* one add_task or put_prev_task call; a task not created yet is nowhere.
C12_ExactlyOnePlace ==
    \A t \in Tasks : Places(t) = IF t \in fresh THEN 0 ELSE 1

\* One task is in transit inside a put_prev_task call of a hart that was given it,
\* the other is in the hands of another hart.
C12_Witness ==
    \E p \in Harts : \E q \in Harts \ {p} :
        /\ op[p] = "put" /\ pc[p] = "crit"
        /\ hand[q] # {}
        /\ \A i \in Harts : queue[i] = <<>>

\* ------------------------------------------------------------ C13
\* The slots whose scheduler thread p is in the middle of using.
Using(p) ==
    IF pc[p] \in {"crit", "pop"} THEN {hid[p]}
    ELSE IF pc[p] \in {"steal", "spop", "icrit"} THEN {idx[p]}
    ELSE {}

\* C13 (slot mutual exclusion): a thread that is using the scheduler of a slot
\* holds that slot's guard, whether it took it by lock() or by try_lock(), so no two
\* threads use the same slot at once; and a queue changes only in a step of the
\* thread that holds its guard.
C13_SlotMutualExclusion ==
    /\ [](\A p \in Threads : \A i \in Using(p) : lock[i] = p)
    /\ [](\A p \in Threads : \A q \in Threads \ {p} : Using(p) \cap Using(q) = {})
    /\ [][\A i \in Harts :
            queue'[i] # queue[i]
              => \E p \in Harts : lock[i] = p /\ i \in Using(p) /\ pc'[p] # pc[p]]_vars

\* A hart is stealing from the slot of another hart, which waits in lock() on its
\* own slot, while a third hart works under its own guard.
C13_Witness ==
    \E q \in Harts : \E r \in Harts \ {q} : \E s \in Harts \ {q, r} :
        /\ pc[q] = "spop" /\ idx[q] = r /\ lock[r] = q
        /\ pc[r] = "lock"
        /\ pc[s] = "crit" /\ lock[s] = s

\* ------------------------------------------------------------ C14
\* Thread p takes a step of its call.
Moves(p) == pc'[p] # pc[p] \/ idx'[p] # idx[p]

\* The indices the scan of hart h has still to probe after index i.
Above(h, i) == {j \in Harts \ {h} : j > i}

\* C14 (single ascending pass): inside a pick_next_task call of hart h, the own slot
\* is taken once, by the blocking lock() at the start, and no other guard is taken
\* but by the try_lock of the index under probe, which is never h; the scan starts
\* when the own scheduler gave nothing, at the lowest index other than h, and goes
\* from an index only to the next higher one other than h, after a failed try_lock
\* or an empty remote scheduler; a remote scheduler that gave a task ends the call
\* with that task; the call returns None from the scan only when no higher index is
\* left.
C14_SingleAscendingPass ==
    [][\A p \in Harts :
          (op[p] = "pick" /\ Moves(p)) =>
             /\ \A i \in Harts :
                   (lock'[i] = p /\ lock[i] # p)
                     => \/ pc[p] = "lock" /\ i = hid[p]
                        \/ pc[p] = "probe" /\ i = idx[p] /\ i # hid[p]
             /\ pc'[p] # "lock"
             /\ (pc[p] = "pop" /\ pc'[p] = "probe")
                   => local[p] = None /\ idx'[p] = Least(Harts \ {hid[p]})
             /\ (pc[p] \in {"probe", "spop"} /\ pc'[p] = "probe")
                   => /\ Above(hid[p], idx[p]) # {}
                      /\ idx'[p] = Least(Above(hid[p], idx[p]))
             /\ (pc[p] = "spop" /\ task[p] # None)
                   => pc'[p] = "idle" /\ ret'[p] = task[p]
             /\ (pc[p] \in {"probe", "spop"} /\ pc'[p] = "idle" /\ ret'[p] = None)
                   => Above(hid[p], idx[p]) = {}]_vars

\* Hart 1 is about to probe slot 2, having skipped its own index after slot 0, which
\* another hart holds locked with a task in its queue.
C14_Witness ==
    /\ op[1] = "pick" /\ pc[1] = "probe" /\ idx[1] = 2
    /\ lock[0] \notin {NoThread, 1}
    /\ queue[0] # <<>>

\* ------------------------------------------------------------ C15
\* C15 (the meaning of a None result): a pick_next_task call of hart h goes past
\* its own slot only if its scheduler, asked under the own guard, had an empty
\* queue; it goes past a remote index i only if try_lock found slot i held by
\* another hart (then nothing is locked, waited for or reported as an error) or if
\* the scheduler of slot i, asked under its guard, had an empty queue; and it
\* returns None only after going past every index.
C15_NoneMeansEmptyOrLocked ==
    [][\A p \in Harts :
          (op[p] = "pick" /\ Moves(p)) =>
             /\ (pc[p] = "crit")
                   => /\ lock[hid[p]] = p
                      /\ (local'[p] = None) <=> (queue[hid[p]] = <<>>)
             /\ (pc[p] = "pop" /\ (pc'[p] = "probe" \/ ret'[p] = None))
                   => local[p] = None
             /\ (pc[p] = "probe" /\ pc'[p] # "steal")
                   => /\ lock[idx[p]] \notin {NoThread, p}
                      /\ lock' = lock
                      /\ pc'[p] \in {"probe", "idle"}
             /\ (pc[p] = "steal")
                   => /\ lock[idx[p]] = p
                      /\ (task'[p] = None) <=> (queue[idx[p]] = <<>>)
             /\ (pc[p] = "spop" /\ (pc'[p] = "probe" \/ ret'[p] = None))
                   => task[p] = None
             /\ (pc'[p] = "idle" /\ ret'[p] = None)
                   => pc[p] \in {"probe", "spop"} /\ Above(hid[p], idx[p]) = {}]_vars

\* A hart whose own scheduler gave nothing is at the last index of its scan, which
\* another hart holds locked with a task in its queue: its call will return None.
C15_Witness ==
    \E p \in Harts :
        /\ op[p] = "pick" /\ pc[p] = "probe" /\ local[p] = None
        /\ Above(hid[p], idx[p]) = {}
        /\ lock[idx[p]] \notin {NoThread, p}
        /\ queue[idx[p]] # <<>>
        /\ \A i \in Harts \ {idx[p]} : queue[i] = <<>>

\* ------------------------------------------------------------ C16
\* This step is thread p's put_prev_task call inserting and returning.
PutReturns(p) == op[p] = "put" /\ pc[p] = "crit" /\ pc'[p] = "idle"

\* The harts in whose queue task t sat at the start.
Origin(t) == {i \in Harts : t \in Elems(snap[i])}

\* C16 (stolen tasks migrate): when put_prev_task(t, preempt) of hart h inserts and
\* returns, for either value of preempt, t is the new last element of the queue of
\* slot h, and every other queue, that of the hart t came from included, is as it
\* was and does not hold t.
C16_StolenTasksMigrate ==
    [][\A p \in Harts :
          PutReturns(p)
            => /\ queue'[hid[p]] = Append(queue[hid[p]], arg[p])
               /\ \A i \in Harts \ {hid[p]} : queue'[i] = queue[i]
               /\ \A i \in Origin(arg[p]) \ {hid[p]} :
                     arg[p] \notin Elems(queue'[i])]_vars

\* A task sits in the queue of a hart other than the one it started on, and no
\* other task left its queue: a hart stole it and put it back.
C16_Witness ==
    \E t \in Tasks : \E h \in Harts :
        /\ t \in Elems(queue[h])
        /\ h \notin Origin(t)
        /\ snap[h] = <<>>
        /\ \A p \in Harts : pc[p] = "idle" /\ hand[p] = {}
        /\ \A u \in Tasks \ {t} : \A i \in Origin(u) : u \in Elems(queue[i])

\* ------------------------------------------------------------ C17
\* Thread p was returned None and has left its loop.
Stopped(p) == pc[p] = "idle" /\ ret[p] = None

\* C17 (the drain of the example): a thread that has stopped finds the queue of its
\* own slot empty from then on; and once every thread has stopped, every queue is
\* empty and each task that was added is in the hands of exactly one thread, to
\* which one pick_next_task call returned it.
C17_DrainReturnsEveryTaskOnce ==
    /\ \A p \in Harts : Stopped(p) => queue[hid[p]] = <<>>
    /\ (\A p \in Harts : Stopped(p))
          => /\ \A i \in Harts : queue[i] = <<>>
             /\ \A t \in Queued : Cardinality({p \in Harts : t \in hand[p]}) = 1
             /\ \A p \in Harts : hand[p] \subseteq Queued

\* Every thread has stopped, each under its own index; one of them was returned
\* nothing although its own queue held a task, which another thread stole.
C17_Witness ==
    /\ \A p \in Harts : Stopped(p) /\ hid[p] = p
    /\ Cardinality(Queued) = NTasks
    /\ \E p \in Harts : hand[p] = {} /\ snap[p] # <<>>

\* ------------------------------------------------------------ C18
\* The slots whose guard thread p holds.
Held(p) == {i \in Harts : lock[i] = p}

\* C18 (at most one guard per hart): a thread holds the guard of at most one slot.
\* It holds none between calls, while it waits in lock(), and at a try_lock of the
\* scan (the own guard was dropped before the first probe, a remote guard before
\* the next one); under a scheduler call it holds the guard of that slot only: its
\* own in the five local operations and the local pick, the probed one in a steal,
\* slot i in the loop of init().
C18_AtMostOneGuard ==
    \A p \in Threads :
        /\ Cardinality(Held(p)) <= 1
        /\ pc[p] \in {"idle", "panicked", "lock", "probe", "ilock"} => Held(p) = {}
        /\ pc[p] \in {"crit", "pop"} => Held(p) = {hid[p]}
        /\ pc[p] \in {"steal", "spop", "icrit"} => Held(p) = {idx[p]}

\* After init(), a hart holds the guard of a remote slot in a steal, and nothing
\* else, while the guard of its own slot is held by another hart.
C18_Witness ==
    \E p \in Harts :
        /\ inited
        /\ pc[p] = "spop" /\ Held(p) = {idx[p]}
        /\ lock[hid[p]] \notin {NoThread, p}

\* ------------------------------------------------------------ C19
\* Hart p waits: it is in lock() and another thread holds the mutex.
Waits(p) == pc[p] = "lock" /\ lock[hid[p]] # NoThread

\* C19 (deadlock freedom and completion): a hart inside a call can always take its
\* next step, unless it is in the lock() of its own slot while another hart holds
\* that guard; the holder is then not waiting itself and can take its next step, so
\* there is no circular wait; and with every hart taking its steps and lock()
\* granted when the mutex is free again and again, every call returns.
C19_NoDeadlockEveryCallReturns ==
    /\ [](\A p \in Harts :
            /\ (pc[p] # "idle" /\ ~Waits(p)) => ENABLED Step(p)
            /\ Waits(p) => /\ lock[hid[p]] \in Harts \ {p}
                           /\ ~Waits(lock[hid[p]])
                           /\ ENABLED Step(lock[hid[p]]))
    /\ \A p \in Harts : (pc[p] # "idle") ~> (pc[p] = "idle")

\* A hart inside one of the five local operations waits in lock() on its own slot,
\* whose guard another hart holds in the middle of a steal.
C19_Witness ==
    \E p \in Harts : \E q \in Harts \ {p} :
        /\ pc[p] = "lock" /\ lock[hid[p]] = q /\ pc[q] \in {"steal", "spop"}
        /\ op[p] \in LocalOps

====
